---- MODULE Spec2Model ----
(***************************************************************************)
(* Model of the recurring-income routes of money_map_backend               *)
(* (routes/recurring.routes.js): POST /api/recurring creates a rule row in *)
(* recurring_incomes, POST /api/recurring/:id/generate walks the rule's    *)
(* cadence and optionally inserts the occurrences into incomes.            *)
(* Also modelled: POST /api/expense (routes/expense.routes.js) and the     *)
(* POST, PUT and DELETE handlers of /api/income (routes/income.routes.js)  *)
(* in SQLite mode (one synchronous step each) and in JSON-file mode, where *)
(* each await of readIncomeData / saveIncomeData is a step of its own and  *)
(* the steps of several requests interleave.                               *)
(*                                                                         *)
(* Representation                                                          *)
(*   date string  "YYYY-MM-DD"            tuple <<y, m, d>>                *)
(*   timestamp    "YYYY-MM-DDTHH:..Z"     tuple <<y, m, d, h>> (UTC)       *)
(*   JS Date                              integer, hours since the epoch   *)
(*   null / undefined date string         Null (the empty tuple)           *)
(*   missing text field                   "" (falsy, like undefined)       *)
(*   null / 0 number                      0 (the code only tests truth)    *)
(* The host's UTC offset (tz, in hours) and the clock (now) are part of    *)
(* the state: date-fns parses a date-only string as local midnight, while  *)
(* Date.prototype.toISOString prints UTC.                                  *)
(***************************************************************************)
EXTENDS Integers, Sequences, FiniteSets, TLC

VARIABLES
  rule,         \* the recurring_incomes row of the rule id under request
  created,      \* the body of the POST /api/recurring that created the rule
  incomes,      \* the incomes table, in insertion order
  batches,      \* number of insertMany transactions committed so far
  req, resp,    \* the last request answered and its response
  now, tz,      \* wall clock (a JS Date) and the host's UTC offset
  pc,           \* position of the generate handler: "idle" | "loop" | "after"
  call,         \* req.body of the generate call being handled
  start, end,   \* the handler's locals of the same names
  cursor, count, occurrences,
  expenses,     \* the content of data/expenses.json
  expenseReq,   \* the body of the last POST /api/expense answered
  expenseResp,  \* and its response
  db,           \* whether require('../db') succeeded (SQLite mode)
  uuids,        \* number of uuidv4() ids the income route has stored
  incomeFile,   \* data/income.json: whether it exists and its content
  incomeCalls   \* the /api/income requests received, each with the
                \* position of its handler, its locals and its response

vars == <<rule, created, incomes, batches, req, resp, now, tz, pc, call,
          start, end, cursor, count, occurrences, expenses, expenseReq,
          expenseResp, db, uuids, incomeFile, incomeCalls>>

expenseVars == <<expenses, expenseReq, expenseResp>>

incomeVars == <<db, uuids, incomeFile, incomeCalls>>

locals == <<call, start, end, cursor, count, occurrences>>

\* ------------------------------------------------------------------------
\* Bounds of the model
\* ------------------------------------------------------------------------
\* how many times the clock may advance (by one day each time)
MaxTicks == 1
\* how many insertMany transactions may be committed
MaxBatches == 2
\* largest occurrence limit a created rule carries
MaxLimit == 2
\* how many iterations of the generate loop are followed
MaxIter == 40
\* how many records data/expenses.json may hold
MaxExpenses == 2
\* /api/income requests received in one behaviour
MaxCalls == 3

Null == <<>>
NoRule == [id |-> "none"]
NoBody == [amount |-> 0]
NoReq == [from |-> Null, to |-> Null, persist |-> FALSE]
NoResp == [op |-> "none", status |-> 0, occurrences |-> <<>>, persisted |-> FALSE]

\* ------------------------------------------------------------------------
\* Calendar arithmetic (proleptic Gregorian), as JS Date / date-fns do it
\* ------------------------------------------------------------------------
isLeap(y) == ((y % 4) = 0 /\ (y % 100) # 0) \/ (y % 400) = 0

daysInMonth(y, m) ==
  IF m = 2 THEN (IF isLeap(y) THEN 29 ELSE 28)
  ELSE IF m \in {4, 6, 9, 11} THEN 30 ELSE 31

\* days since 1970-01-01 of the civil date y-m-d
DaysFromCivil(y, m, d) ==
  LET yy  == IF m <= 2 THEN y - 1 ELSE y
      era == yy \div 400
      yoe == yy - era * 400
      mp  == IF m > 2 THEN m - 3 ELSE m + 9
      doy == (153 * mp + 2) \div 5 + d - 1
      doe == yoe * 365 + yoe \div 4 - yoe \div 100 + doy
  IN  era * 146097 + doe - 719468

\* civil date <<y, m, d>> of a day number
CivilFromDays(z) ==
  LET zz  == z + 719468
      era == zz \div 146097
      doe == zz - era * 146097
      yoe == (doe - doe \div 1460 + doe \div 36524 - doe \div 146096) \div 365
      doy == doe - (365 * yoe + yoe \div 4 - yoe \div 100)
      mp  == (5 * doy + 2) \div 153
      d   == doy - (153 * mp + 2) \div 5 + 1
      m   == IF mp < 10 THEN mp + 3 ELSE mp - 9
      y   == yoe + era * 400 + (IF m <= 2 THEN 1 ELSE 0)
  IN  <<y, m, d>>

\* date-fns parseISO: a date-only string is LOCAL midnight on a host whose
\* UTC offset is off hours; a timestamp ending in Z is that UTC instant
parseISO(s, off) ==
  IF Len(s) = 3 THEN DaysFromCivil(s[1], s[2], s[3]) * 24 - off
  ELSE DaysFromCivil(s[1], s[2], s[3]) * 24 + s[4]

\* Date.prototype.toISOString: the UTC fields of the instant
toISOString(date) ==
  LET c == CivilFromDays(date \div 24) IN <<c[1], c[2], c[3], date % 24>>

\* slice(0, 7) as in monthKey: the month only, every day of it printed alike
slice10_MonthKey(s) == <<s[1], s[2], 1>>

\* String.prototype.slice(0, 10) on a timestamp: its date part
slice10(s) == SubSeq(s, 1, 3)

isAfter(date, dateToCompare) == date > dateToCompare

addDays(date, amount) == date + 24 * amount

addWeeks(date, amount) == addDays(date, 7 * amount)

\* date-fns addMonths: on the local calendar fields, the day of month clamped
\* to the length of the target month, the time of day kept
addMonths(date, amount, off) ==
  LET local == date + off
      c     == CivilFromDays(local \div 24)
      total == c[1] * 12 + (c[2] - 1) + amount
      y2    == total \div 12
      m2    == (total % 12) + 1
      dim   == daysInMonth(y2, m2)
      d2    == IF c[3] >= dim THEN dim ELSE c[3]
  IN  DaysFromCivil(y2, m2, d2) * 24 + (local % 24) - off

addYears(date, amount, off) == addMonths(date, amount * 12, off)

addInterval(date, frequency, interval, off) ==
  CASE frequency = "daily"   -> addDays(date, interval)
    [] frequency = "weekly"  -> addWeeks(date, interval)
    [] frequency = "monthly" -> addMonths(date, interval, off)
    [] frequency = "yearly"  -> addYears(date, interval, off)
    [] OTHER                 -> addMonths(date, interval, off)

\* JS  a || b  on date strings (Null is falsy), numbers (0 is falsy) and
\* text ("" is falsy)
OrStr(a, b) == IF a = Null THEN b ELSE a
OrNum(a, b) == IF a = 0 THEN b ELSE a
OrText(a, b) == IF a = "" THEN b ELSE a

\* ------------------------------------------------------------------------
\* The cadence walk of POST /:id/generate
\* ------------------------------------------------------------------------
\* the object pushed for a cursor inside the window
Emit(r, date) ==
  [date |-> slice10(toISOString(date)), amount |-> r.amount,
   category |-> r.category, description |-> r.description]

\* whether the cursor is pushed: the code skips  !isAfter(cursor, start)
InWindow(date, windowStart) == isAfter(date, windowStart)

\* whether the loop is left after counting (n is the incremented count)
LimitReached(r, n) == r.occurrences # 0 /\ n > r.occurrences

\* the loop condition  !isAfter(cursor, end)
LoopCond(date, windowEnd) == ~isAfter(date, windowEnd)

\* the end of the walk:  to || rule.endDate || new Date().toISOString()
WindowEnd(r, to, clock, off) ==
  parseISO(OrStr(to, OrStr(r.endDate, toISOString(clock))), off)

\* the start of the window:  from || rule.startDate
WindowStart(r, from, off) == parseISO(OrStr(from, r.startDate), off)

\* insertMany: one incomes row per occurrence, fresh id, createdAt = now
InsertMany(store, rows, clock) ==
  store \o [i \in 1..Len(rows) |->
              [id |-> Len(store) + i, amount |-> rows[i].amount,
               category |-> rows[i].category,
               description |-> OrText(rows[i].description, ""),
               date |-> rows[i].date, createdAt |-> toISOString(clock)]]

\* the persist branch taken whatever the request says
ShouldPersist_Always(persist, rows) == Len(rows) # 0

\* the guard of the persist branch:  if (persist && occurrences.length)
ShouldPersist(persist, rows) == persist /\ Len(rows) # 0

\* insertMany without db.transaction: the rows inserted before the failing
\* insert.run stay in the table
InsertManyTx_NoRollback(store, rows, clock, failAt) ==
  IF failAt = 0 THEN InsertMany(store, rows, clock)
  ELSE InsertMany(store, SubSeq(rows, 1, failAt - 1), clock)

\* insertMany = db.transaction(...): when the failAt-th insert.run throws
\* (failAt = 0: none does) the transaction is rolled back and the table is
\* as before; otherwise every row is committed
InsertManyTx(store, rows, clock, failAt) ==
  IF failAt = 0 THEN InsertMany(store, rows, clock) ELSE store

\* the handler is a synchronous function (no async / await): it runs to
\* completion before the event loop dispatches another request
EventLoopFree_Yielding(position) == TRUE

EventLoopFree(position) == position = "idle"

\* ------------------------------------------------------------------------
\* Inputs
\* ------------------------------------------------------------------------
Frequencies == {"daily", "weekly", "monthly", "yearly"}

Bodies ==
  [amount : {0, 1000}, category : {"salary"}, description : {""},
   startDate : {<<2024, 1, 31>>}, frequency : Frequencies,
   interval : {0, 1, 2}, occurrences : {0, MaxLimit},
   endDate : {Null, <<2024, 2, 21>>}]

Froms == {Null, <<2024, 1, 24>>, <<2024, 1, 31>>, <<2024, 2, 7>>}
Tos == {Null, <<2024, 2, 14>>, <<2024, 3, 6>>}

\* 2024-02-02T03:00Z
NowStart == DaysFromCivil(2024, 2, 2) * 24 + 3

\* UTC and Asia/Seoul
Offsets == {0, 9}

NoCall == [from |-> Null, to |-> Null, persist |-> FALSE]

\* ------------------------------------------------------------------------
\* POST /api/expense (routes/expense.routes.js)
\* ------------------------------------------------------------------------
NoExpenseResp == [status |-> 0, body |-> Null]

\* the names the POST handler binds by destructuring req.body
PostExpenseScope ==
  {"amount", "description", "date", "paymentMethod", "location", "categories"}

\* reading an identifier that no scope binds throws a ReferenceError
Throws(name, scope) == name \notin scope

\* derivedCategory: the first flag set, in the order of the else-if chain;
\* flags is the set of category flags that parseBoolean turns true
DerivedCategory(flags) ==
  CASE "isCoffee" \in flags         -> "coffee"
    [] "isRent" \in flags           -> "rent"
    [] "isFood" \in flags           -> "food"
    [] "isSavings" \in flags        -> "savings"
    [] "isTransportation" \in flags -> "transport"
    [] "isUtility" \in flags        -> "utility"
    [] "isEntertainment" \in flags  -> "entertainment"
    [] "isShopping" \in flags       -> "shopping"
    [] OTHER                        -> "etc"

\* the newExpense object; id is Date.now().toString()
NewExpense(body, clock) ==
  [id |-> clock, amount |-> body.amount,
   category |-> DerivedCategory(body.categories),
   description |-> OrText(body.description, ""), date |-> body.date,
   paymentMethod |-> OrText(body.paymentMethod, "cash"),
   location |-> OrText(body.location, ""), flags |-> body.categories,
   createdAt |-> toISOString(clock)]

ExpenseBodies ==
  [amount : {0, 500, 1200}, date : {Null, <<2024, 2, 1>>, <<2024, 2, 2>>},
   description : {"", "lunch"}, paymentMethod : {"", "card"},
   location : {""},
   categories : {{}, {"isCoffee"}, {"isFood", "isFixed"}, {"isShopping"}}]

\* ------------------------------------------------------------------------
\* /api/income (routes/income.routes.js)
\* ------------------------------------------------------------------------
\* data/income.json before the first save: fs.readFile rejects with ENOENT
NoFile == [exists |-> FALSE, data |-> <<>>]

\* no record (undefined)
NoIncome == [id |-> ""]

\* the id of the k-th uuidv4() result: distinct from every other one
uuidv4(k) == ToString(k)

\* Date.now().toString(): the decimal digits of the clock reading
DateNowToString(clock) == ToString(clock)

\* the row INSERTed and the newIncome object: the same six fields
NewIncome(id, body, clock) ==
  [id |-> id, amount |-> body.amount, category |-> body.category,
   description |-> OrText(body.description, ""), date |-> body.date,
   createdAt |-> toISOString(clock)]

\* the validation of POST:  !amount || !category || !date
MissingField(body) ==
  body.amount = 0 \/ body.category = "" \/ body.date = Null

\* SELECT * FROM incomes WHERE id = ?  (.get: the row or undefined)
SelectById(store, id) ==
  IF \E k \in 1..Len(store) : store[k].id = id
  THEN store[CHOOSE k \in 1..Len(store) : store[k].id = id]
  ELSE NoIncome

\* UPDATE incomes SET amount, category, description, date, createdAt
\* WHERE id = ?: the fifth placeholder is bound to updatedAt
UpdateRows(store, id, body, clock) ==
  [k \in 1..Len(store) |->
     IF store[k].id = id
     THEN [store[k] EXCEPT
             !.amount = OrNum(body.amount, store[k].amount),
             !.category = OrText(body.category, store[k].category),
             !.description = OrText(body.description, store[k].description),
             !.date = OrStr(body.date, store[k].date),
             !.createdAt = toISOString(clock)]
     ELSE store[k]]

\* DELETE FROM incomes WHERE id = ?  and  data.filter(i => i.id !== id)
Filter(store, id) == SelectSeq(store, LAMBDA r : r.id # id)

\* data.findIndex(i => i.id === id), 1-based; 0 stands for -1
FindIndex(data, id) ==
  IF \E k \in 1..Len(data) : data[k].id = id
  THEN CHOOSE k \in 1..Len(data) :
         data[k].id = id /\ \A j \in 1..(k - 1) : data[j].id # id
  ELSE 0

\* { ...data[idx], amount, category, description, date, updatedAt }
UpdateItem(item, body, clock) ==
  [id |-> item.id, amount |-> OrNum(body.amount, item.amount),
   category |-> OrText(body.category, item.category),
   description |-> OrText(body.description, item.description),
   date |-> OrStr(body.date, item.date), createdAt |-> item.createdAt,
   updatedAt |-> toISOString(clock)]

\* a request whose handler awaits readIncomeData()
NewCall(op, id, body) ==
  [op |-> op, id |-> id, body |-> body, pc |-> "read", data |-> <<>>,
   item |-> NoIncome, status |-> 0, out |-> NoIncome]

\* the handler returns: req.body and the locals are gone, the response stays
Respond(c, status, out) ==
  [c EXCEPT !.pc = "done", !.body = NoBody, !.data = <<>>,
            !.status = status, !.out = out]

\* JSON-file mode, the synchronous code that follows
\* `const data = await readIncomeData()` up to the next await or return
Continue(c, data, clock) ==
  CASE c.op = "post" ->
         [c EXCEPT !.data = Append(data, c.item), !.pc = "write"]
    [] c.op = "put" ->
         LET idx == FindIndex(data, c.id) IN
         IF idx = 0 THEN Respond(c, 404, NoIncome)
         ELSE [c EXCEPT !.item = data[idx],
                        !.out = UpdateItem(data[idx], c.body, clock),
                        !.data = [data EXCEPT ![idx] =
                                    UpdateItem(data[idx], c.body, clock)],
                        !.pc = "write"]
    [] c.op = "delete" ->
         IF Len(Filter(data, c.id)) = Len(data)
         THEN Respond(c, 404, NoIncome)
         ELSE [c EXCEPT !.data = Filter(data, c.id), !.pc = "write"]

\* request bodies of POST: two complete ones and one per missing field
IncomeBodies ==
  {[amount |-> 1000, category |-> "salary", description |-> "",
    date |-> <<2024, 2, 1>>],
   [amount |-> 2500, category |-> "bonus", description |-> "q1",
    date |-> <<2024, 2, 2>>],
   [amount |-> 0, category |-> "salary", description |-> "",
    date |-> <<2024, 2, 1>>],
   [amount |-> 1000, category |-> "", description |-> "",
    date |-> <<2024, 2, 1>>],
   [amount |-> 1000, category |-> "salary", description |-> "",
    date |-> Null]}

\* request bodies of PUT: every field is optional
PutBodies ==
  {[amount |-> 2000, category |-> "", description |-> "", date |-> Null],
   [amount |-> 0, category |-> "gift", description |-> "",
    date |-> <<2024, 2, 3>>]}

\* req.params.id: the first uuid and the first clock reading
IncomeIds == {uuidv4(1), DateNowToString(NowStart)}

\* ------------------------------------------------------------------------
\* State machine
\* ------------------------------------------------------------------------
Booted(loaded) ==
  /\ rule = NoRule
  /\ created = NoBody
  /\ incomes = <<>>
  /\ batches = 0
  /\ req = NoReq
  /\ resp = NoResp
  /\ now = NowStart
  /\ tz \in Offsets
  /\ pc = "idle"
  /\ call = NoCall
  /\ start = 0
  /\ end = 0
  /\ cursor = 0
  /\ count = 0
  /\ occurrences = <<>>
  /\ expenses = <<>>
  /\ expenseReq = NoBody
  /\ expenseResp = NoExpenseResp
  /\ db = loaded
  /\ uuids = 0
  /\ incomeFile = NoFile
  /\ incomeCalls = <<>>

\* the server with ../db loaded: without it the recurring routes only
\* answer 500 'DB not available'
Init == Booted(TRUE)

\* routes/income.routes.js falls back to data/income.json when
\* require('../db') throws
InitIncome == \E loaded \in BOOLEAN : Booted(loaded)

\* POST /api/recurring
CreateRule(body) ==
  /\ EventLoopFree(pc)
  /\ rule = NoRule
  /\ req' = NoReq
  /\ IF body.amount = 0 \/ body.category = "" \/ body.startDate = Null
        \/ body.frequency = ""
     THEN /\ resp' = [op |-> "create", status |-> 400, occurrences |-> <<>>,
                      persisted |-> FALSE]
          /\ UNCHANGED <<rule, created>>
     ELSE /\ created' = body
          /\ rule' = [id |-> "r1", amount |-> body.amount,
                      category |-> body.category,
                      description |-> OrText(body.description, ""),
                      startDate |-> body.startDate,
                      frequency |-> body.frequency,
                      interval |-> OrNum(body.interval, 1),
                      occurrences |-> OrNum(body.occurrences, 0),
                      endDate |-> OrStr(body.endDate, Null),
                      createdAt |-> toISOString(now)]
          /\ resp' = [op |-> "create", status |-> 201, occurrences |-> <<>>,
                      persisted |-> FALSE]
  /\ UNCHANGED <<incomes, batches, now, tz, pc, locals, expenseVars, incomeVars>>

\* POST /api/recurring/:id/generate, up to the loop
GenerateBegin(from, to, persist) ==
  /\ EventLoopFree(pc)
  /\ persist => batches < MaxBatches
  /\ IF rule = NoRule
     THEN /\ req' = [from |-> from, to |-> to, persist |-> persist]
          /\ resp' = [op |-> "generate", status |-> 404, occurrences |-> <<>>,
                      persisted |-> FALSE]
          /\ UNCHANGED <<pc, locals>>
     ELSE /\ call' = [from |-> from, to |-> to, persist |-> persist]
          /\ start' = WindowStart(rule, from, tz)
          /\ end' = WindowEnd(rule, to, now, tz)
          /\ occurrences' = <<>>
          /\ cursor' = parseISO(rule.startDate, tz)
          /\ count' = 0
          /\ pc' = "loop"
          /\ UNCHANGED <<req, resp>>
  /\ UNCHANGED <<rule, created, incomes, batches, now, tz, expenseVars, incomeVars>>

\* one iteration of  while (!isAfter(cursor, end))
LoopIter ==
  /\ pc = "loop"
  /\ count < MaxIter
  /\ LoopCond(cursor, end)
  /\ occurrences' = IF InWindow(cursor, start)
                    THEN Append(occurrences, Emit(rule, cursor))
                    ELSE occurrences
  /\ count' = count + 1
  /\ IF LimitReached(rule, count + 1)
     THEN pc' = "after" /\ UNCHANGED cursor
     ELSE /\ cursor' = addInterval(cursor, rule.frequency,
                                   OrNum(rule.interval, 1), tz)
          /\ UNCHANGED pc
  /\ UNCHANGED <<rule, created, incomes, batches, req, resp, now, tz, call,
                 start, end, expenseVars, incomeVars>>

\* after the loop: the optional insertMany and the response; failAt is the
\* insert.run that throws (0: none), an exception ends in the catch block
GenerateEnd(failAt) ==
  /\ \/ pc = "after"
     \/ pc = "loop" /\ ~LoopCond(cursor, end)
  /\ failAt <= Len(occurrences)
  /\ failAt # 0 => ShouldPersist(call.persist, occurrences)
  /\ IF ShouldPersist(call.persist, occurrences)
     THEN /\ incomes' = InsertManyTx(incomes, occurrences, now, failAt)
          /\ batches' = IF failAt = 0 THEN batches + 1 ELSE batches
     ELSE UNCHANGED <<incomes, batches>>
  /\ req' = call
  /\ resp' = IF failAt = 0
             THEN [op |-> "generate", status |-> 200,
                   occurrences |-> occurrences, persisted |-> call.persist]
             ELSE [op |-> "generate", status |-> 500, occurrences |-> <<>>,
                   persisted |-> FALSE]
  /\ pc' = "idle"
  /\ call' = NoCall
  /\ start' = 0
  /\ end' = 0
  /\ cursor' = 0
  /\ count' = 0
  /\ occurrences' = <<>>
  /\ UNCHANGED <<rule, created, now, tz, expenseVars, incomeVars>>

\* the wall clock advances by a day between requests
Tick ==
  /\ pc = "idle"
  /\ now < NowStart + 24 * MaxTicks
  /\ now' = now + 24
  /\ UNCHANGED <<rule, created, incomes, batches, req, resp, tz, pc, locals,
                 expenseVars, incomeVars>>

\* POST /api/expense: validation, the newExpense object, then read, push,
\* save and the 201 response; any exception ends in the catch block (500)
PostExpense(body) ==
  /\ EventLoopFree(pc)
  /\ Len(expenses) < MaxExpenses
  /\ expenseReq' = body
  /\ IF body.amount = 0 \/ body.date = Null
     THEN /\ expenseResp' = [status |-> 400, body |-> Null]
          /\ UNCHANGED expenses
     ELSE IF Throws("category", PostExpenseScope)
     THEN /\ expenseResp' = [status |-> 500, body |-> Null]
          /\ UNCHANGED expenses
     ELSE /\ expenses' = Append(expenses, NewExpense(body, now))
          /\ expenseResp' = [status |-> 201, body |-> NewExpense(body, now)]
  /\ UNCHANGED <<rule, created, incomes, batches, req, resp, now, tz, pc,
                 locals, incomeVars>>

\* POST /api/income: validation, then the INSERT (SQLite mode) or the
\* newIncome object and the await of readIncomeData() (JSON-file mode)
PostIncome(body) ==
  /\ EventLoopFree(pc)
  /\ Len(incomeCalls) < MaxCalls
  /\ LET c == NewCall("post", "", body) IN
     IF MissingField(body)
     THEN /\ incomeCalls' = Append(incomeCalls, Respond(c, 400, NoIncome))
          /\ UNCHANGED <<incomes, uuids>>
     ELSE IF db
     THEN LET row == NewIncome(uuidv4(uuids + 1), body, now) IN
          /\ incomes' = Append(incomes, row)
          /\ uuids' = uuids + 1
          /\ incomeCalls' = Append(incomeCalls, Respond(c, 201, row))
     ELSE /\ incomeCalls' = Append(incomeCalls,
            [c EXCEPT !.item = NewIncome(DateNowToString(now), body, now)])
          /\ UNCHANGED <<incomes, uuids>>
  /\ UNCHANGED <<rule, created, batches, req, resp, now, tz, pc, locals,
                 expenseVars, db, incomeFile>>

\* PUT /api/income/:id: SELECT, UPDATE, SELECT (SQLite mode) or the await
\* of readIncomeData() (JSON-file mode)
PutIncome(id, body) ==
  /\ EventLoopFree(pc)
  /\ Len(incomeCalls) < MaxCalls
  /\ LET c == NewCall("put", id, body)
         existing == SelectById(incomes, id)
         updated == UpdateRows(incomes, id, body, now) IN
     IF db /\ existing = NoIncome
     THEN /\ incomeCalls' = Append(incomeCalls, Respond(c, 404, NoIncome))
          /\ UNCHANGED incomes
     ELSE IF db
     THEN /\ incomes' = updated
          /\ incomeCalls' = Append(incomeCalls,
               Respond([c EXCEPT !.item = existing], 200,
                       SelectById(updated, id)))
     ELSE /\ incomeCalls' = Append(incomeCalls, c)
          /\ UNCHANGED incomes
  /\ UNCHANGED <<rule, created, batches, req, resp, now, tz, pc, locals,
                 expenseVars, db, uuids, incomeFile>>

\* DELETE /api/income/:id: the DELETE statement and info.changes (SQLite
\* mode) or the await of readIncomeData() (JSON-file mode)
DeleteIncome(id) ==
  /\ EventLoopFree(pc)
  /\ Len(incomeCalls) < MaxCalls
  /\ LET c == NewCall("delete", id, NoBody) IN
     IF db /\ Len(Filter(incomes, id)) = Len(incomes)
     THEN /\ incomeCalls' = Append(incomeCalls, Respond(c, 404, NoIncome))
          /\ UNCHANGED incomes
     ELSE IF db
     THEN /\ incomes' = Filter(incomes, id)
          /\ incomeCalls' = Append(incomeCalls, Respond(c, 200, NoIncome))
     ELSE /\ incomeCalls' = Append(incomeCalls, c)
          /\ UNCHANGED incomes
  /\ UNCHANGED <<rule, created, batches, req, resp, now, tz, pc, locals,
                 expenseVars, db, uuids, incomeFile>>

\* readIncomeData() of the i-th request: fs.readFile settles. With the file
\* present the handler runs on to its next await or return; on ENOENT it
\* awaits saveIncomeData([]).
readIncomeData(i) ==
  /\ EventLoopFree(pc)
  /\ i \in 1..Len(incomeCalls)
  /\ incomeCalls[i].pc = "read"
  /\ incomeCalls' =
       [incomeCalls EXCEPT ![i] =
          IF incomeFile.exists THEN Continue(@, incomeFile.data, now)
          ELSE [@ EXCEPT !.pc = "enoent"]]
  /\ UNCHANGED <<rule, created, incomes, batches, req, resp, now, tz, pc,
                 locals, expenseVars, db, uuids, incomeFile>>

\* saveIncomeData(data) of the i-th request: fs.mkdir and fs.writeFile
\* settle (the write taken as one step). After the save of [] on ENOENT the
\* handler runs on with an empty list; after the handler's own save it
\* answers.
saveIncomeData(i) ==
  /\ EventLoopFree(pc)
  /\ i \in 1..Len(incomeCalls)
  /\ LET c == incomeCalls[i] IN
     \/ /\ c.pc = "enoent"
        /\ incomeFile' = [exists |-> TRUE, data |-> <<>>]
        /\ incomeCalls' = [incomeCalls EXCEPT ![i] = Continue(c, <<>>, now)]
     \/ /\ c.pc = "write"
        /\ incomeFile' = [exists |-> TRUE, data |-> c.data]
        /\ incomeCalls' =
             [incomeCalls EXCEPT ![i] =
                CASE c.op = "post"   -> Respond(c, 201, c.item)
                  [] c.op = "put"    -> Respond(c, 200, c.out)
                  [] c.op = "delete" -> Respond(c, 200, NoIncome)]
  /\ UNCHANGED <<rule, created, incomes, batches, req, resp, now, tz, pc,
                 locals, expenseVars, db, uuids>>

\* generation without persistence, over the general rules and windows
Next ==
  \/ \E body \in Bodies : CreateRule(body)
  \/ \E from \in Froms, to \in Tos : GenerateBegin(from, to, FALSE)
  \/ LoopIter
  \/ GenerateEnd(0)
  \/ Tick

Spec == Init /\ [][Next]_vars

\* the rules of the documented scenarios, over windows reaching into 2024
ScenarioBodies ==
  { [amount |-> 1000, category |-> "salary", description |-> "",
     startDate |-> <<2024, 1, 1>>, frequency |-> "weekly", interval |-> 2,
     occurrences |-> 3, endDate |-> Null],
    [amount |-> 1000, category |-> "salary", description |-> "",
     startDate |-> <<2024, 1, 1>>, frequency |-> "weekly", interval |-> 2,
     occurrences |-> 0, endDate |-> <<2024, 1, 20>>],
    [amount |-> 1000, category |-> "salary", description |-> "",
     startDate |-> <<2024, 1, 31>>, frequency |-> "monthly", interval |-> 1,
     occurrences |-> 0, endDate |-> Null] }

ScenarioFroms == {Null, <<2024, 1, 1>>}
ScenarioTos == {<<2024, 4, 30>>, <<2024, 12, 31>>}

NextScenario ==
  \/ \E body \in ScenarioBodies : CreateRule(body)
  \/ \E from \in ScenarioFroms, to \in ScenarioTos :
       GenerateBegin(from, to, FALSE)
  \/ LoopIter
  \/ GenerateEnd(0)
  \/ Tick

SpecScenario == Init /\ [][NextScenario]_vars

\* generation with and without persistence, over a few rules and windows
MaterializeBodies ==
  [amount : {1000}, category : {"salary"}, description : {""},
   startDate : {<<2024, 1, 31>>}, frequency : {"weekly", "monthly"},
   interval : {1}, occurrences : {0, MaxLimit}, endDate : {Null},
   isActive : BOOLEAN]

\* which insert.run of a batch throws (0: none)
FailPoints == {0, 1, 2}

MaterializeFroms == {Null, <<2024, 2, 7>>}
MaterializeTos == {<<2024, 2, 14>>, <<2024, 3, 6>>}

NextMaterialize ==
  \/ \E body \in MaterializeBodies : CreateRule(body)
  \/ \E from \in MaterializeFroms, to \in MaterializeTos, persist \in BOOLEAN :
       GenerateBegin(from, to, persist)
  \/ LoopIter
  \/ \E failAt \in FailPoints : GenerateEnd(failAt)
  \/ Tick

SpecMaterialize == Init /\ [][NextMaterialize]_vars

\* rules and windows the handlers accept without validation: a frequency
\* outside the four cadences, an interval below 1, a window with from > to
InvalidBodies ==
  [amount : {1000}, category : {"salary"}, description : {""},
   startDate : {<<2024, 1, 31>>}, frequency : {"hourly", "daily"},
   interval : {-1, 0, 1}, occurrences : {0, MaxLimit}, endDate : {Null}]

InvalidFroms == {Null, <<2024, 1, 24>>, <<2024, 2, 20>>}
InvalidTos == {<<2024, 2, 7>>, <<2024, 3, 6>>}

NextInvalid ==
  \/ \E body \in InvalidBodies : CreateRule(body)
  \/ \E from \in InvalidFroms, to \in InvalidTos :
       GenerateBegin(from, to, FALSE)
  \/ LoopIter
  \/ GenerateEnd(0)
  \/ Tick

SpecInvalid == Init /\ [][NextInvalid]_vars

\* the expense route alone
NextExpense ==
  \/ \E body \in ExpenseBodies : PostExpense(body)
  \/ Tick

SpecExpense == Init /\ [][NextExpense]_vars

\* the income route alone, in either storage mode
NextIncome ==
  \/ \E body \in IncomeBodies : PostIncome(body)
  \/ \E id \in IncomeIds, body \in PutBodies : PutIncome(id, body)
  \/ \E id \in IncomeIds : DeleteIncome(id)
  \/ \E i \in 1..MaxCalls : readIncomeData(i)
  \/ \E i \in 1..MaxCalls : saveIncomeData(i)
  \/ Tick

SpecIncome == InitIncome /\ [][NextIncome]_vars

\* ------------------------------------------------------------------------
\* Vocabulary of the properties
\* ------------------------------------------------------------------------
\* the last response answers a generate call on the stored rule
Answered == resp.op = "generate" /\ resp.status = 200

\* the day number of a date string
Ord(s) == DaysFromCivil(s[1], s[2], s[3])

\* the dates of the last response, in order
EmittedDates == [i \in 1..Len(resp.occurrences) |-> resp.occurrences[i].date]

\* the dates stored in incomes
StoredDates == {incomes[i].date : i \in 1..Len(incomes)}

\* the date string s advanced by n months, the day of month of s clamped to
\* the length of the target month
MonthsAfter(s, n) ==
  LET total == s[1] * 12 + (s[2] - 1) + n
      y2    == total \div 12
      m2    == (total % 12) + 1
      dim   == daysInMonth(y2, m2)
  IN  <<y2, m2, IF s[3] >= dim THEN dim ELSE s[3]>>

\* the k-th cadence date of rule r, counted from startDate (k = 0)
CadenceDate(r, k) ==
  CASE r.frequency = "daily"   -> CivilFromDays(Ord(r.startDate) + k * r.interval)
    [] r.frequency = "weekly"  -> CivilFromDays(Ord(r.startDate) + 7 * k * r.interval)
    [] r.frequency = "monthly" -> MonthsAfter(r.startDate, k * r.interval)
    [] r.frequency = "yearly"  -> MonthsAfter(r.startDate, 12 * k * r.interval)

\* an upper bound on the cadence position of date s: a cadence unit is at
\* least one day long
PositionsUpTo(r, s) == 0..(Ord(s) - Ord(r.startDate) + 1)

\* ------------------------------------------------------------------------
\* Properties
\* ------------------------------------------------------------------------
\* C1: after two generate-and-persist calls on the rule, each occurrence date
\* is stored as exactly one incomes record: the record count equals the
\* number of distinct dates stored.
C1_EachOccurrenceStoredOnce ==
  batches = 2 => Len(incomes) = Cardinality(StoredDates)

\* C2: a generate call on a rule with occurrence limit N emits at most N
\* occurrences, wherever the window starts.
C2_AtMostLimit ==
  (Answered /\ rule.occurrences # 0)
    => Len(resp.occurrences) <= rule.occurrences

\* C3: no emitted occurrence of a rule with endDate is dated after endDate,
\* also when the request gives a `to` later than endDate.
C3_NothingAfterEndDate ==
  (Answered /\ rule.endDate # Null)
    => \A i \in 1..Len(EmittedDates) : Ord(EmittedDates[i]) <= Ord(rule.endDate)

\* C4: the rule weekly / interval 2 / startDate 2024-01-01 / limit 3 over the
\* window [2024-01-01, 2024-12-31] emits exactly 2024-01-01, 2024-01-15,
\* 2024-01-29 (stated for a host in UTC).
C4_BiweeklyLimitThree ==
  (/\ Answered /\ tz = 0
   /\ rule.frequency = "weekly" /\ rule.interval = 2
   /\ rule.startDate = <<2024, 1, 1>> /\ rule.occurrences = 3
   /\ req.from = <<2024, 1, 1>> /\ req.to = <<2024, 12, 31>>)
    => EmittedDates = << <<2024, 1, 1>>, <<2024, 1, 15>>, <<2024, 1, 29>> >>

\* C5: every occurrence of a monthly or yearly rule is startDate advanced by
\* k * interval months (years) with the START day of month clamped to the
\* target month; so the rule starting 2024-01-31 emits 2024-02-29,
\* 2024-03-31, 2024-04-30 after startDate (stated for a host in UTC).
C5_MonthlyClampLaw ==
  (Answered /\ tz = 0 /\ rule.frequency \in {"monthly", "yearly"})
    => \A i \in 1..Len(EmittedDates) :
         \E k \in PositionsUpTo(rule, EmittedDates[i]) :
           EmittedDates[i] = CadenceDate(rule, k)

\* C6: the window is closed at its lower end: when `from` is omitted or equals
\* startDate and startDate <= to, the first emitted occurrence is dated
\* startDate (stated for a host in UTC).
C6_LowerEndClosed ==
  (/\ Answered /\ tz = 0
   /\ req.from \in {Null, rule.startDate}
   /\ req.to # Null /\ Ord(rule.startDate) <= Ord(req.to))
    => /\ Len(EmittedDates) > 0
       /\ EmittedDates[1] = rule.startDate

\* C7: the rule weekly / interval 2 / startDate 2024-01-01 / endDate
\* 2024-01-20 / no limit over the window [2024-01-01, 2024-12-31] emits
\* exactly 2024-01-01 and 2024-01-15 (stated for a host in UTC).
C7_BiweeklyEndDate ==
  (/\ Answered /\ tz = 0
   /\ rule.frequency = "weekly" /\ rule.interval = 2
   /\ rule.startDate = <<2024, 1, 1>> /\ rule.occurrences = 0
   /\ rule.endDate = <<2024, 1, 20>>
   /\ req.from = <<2024, 1, 1>> /\ req.to = <<2024, 12, 31>>)
    => EmittedDates = << <<2024, 1, 1>>, <<2024, 1, 15>> >>

\* C8: when `from` is strictly after startDate, the cadence dates before
\* `from` are not emitted but count toward the limit: with limit N every
\* emitted occurrence is among the first N cadence dates of the rule
\* (stated for a host in UTC).
C8_SkippedCountTowardLimit ==
  (/\ Answered /\ tz = 0 /\ rule.occurrences # 0
   /\ req.from # Null /\ Ord(req.from) > Ord(rule.startDate))
    => \A i \in 1..Len(EmittedDates) :
         /\ Ord(EmittedDates[i]) >= Ord(req.from)
         /\ \E k \in 0..(rule.occurrences - 1) :
              EmittedDates[i] = CadenceDate(rule, k)

C10_SameArgumentsSameResult ==
  [][(/\ Answered /\ GenerateEnd(0)
      /\ call.from = req.from /\ call.to = req.to)
       => resp'.occurrences = resp.occurrences]_vars

\* a step that ends the handling of a generate call
CallEnds == pc # "idle" /\ pc' = "idle"

\* the value read from column col of a table row: undefined (Null) when the
\* table has no such column
RowGet(r, col) == IF col \in DOMAIN r THEN r[col] ELSE Null

\* C11: a materialization batch is all-or-nothing: a call either stores every
\* occurrence it generated and answers 200, or leaves incomes as it was; a
\* call answered with an error leaves incomes and the rule unchanged, and a
\* persisting call is answered 200 only when the whole batch is stored.
C11_BatchAllOrNothing ==
  [][CallEnds =>
       /\ \/ incomes' = incomes
          \/ /\ resp'.status = 200
             /\ Len(incomes') = Len(incomes) + Len(occurrences)
       /\ resp'.status # 200 => (incomes' = incomes /\ rule' = rule)
       /\ (resp'.status = 200 /\ ShouldPersist(call.persist, occurrences))
            => Len(incomes') = Len(incomes) + Len(occurrences)]_vars

\* a persisting call whose batch failed after an earlier batch was stored
C11_Witness ==
  /\ resp.op = "generate" /\ resp.status = 500 /\ req.persist
  /\ Len(incomes) > 0

\* C12: after a successful materialization of a non-empty sequence the rule's
\* lastProcessedDate is the latest date just persisted.
C12_WatermarkFollowsBatch ==
  (Answered /\ resp.persisted /\ Len(EmittedDates) > 0)
    => RowGet(rule, "lastProcessedDate") = EmittedDates[Len(EmittedDates)]

C17_InactiveRuleSilent ==
  ("isActive" \in DOMAIN created /\ ~created.isActive)
    => /\ Answered => resp.occurrences = <<>>
       /\ incomes = <<>>

\* C18: a generate call with persist false leaves the incomes table and the
\* stored rule unchanged, from its first step to its response.
C18_GenerateReadOnly ==
  [][((pc # "idle" /\ ~call.persist) \/ (pc = "idle" /\ pc' = "loop"))
       => (incomes' = incomes /\ rule' = rule)]_vars

\* a non-persisting call answered with occurrences while incomes holds rows
C18_Witness ==
  /\ Answered /\ ~req.persist /\ Len(resp.occurrences) > 0
  /\ Len(incomes) > 0

\* C19: every emitted date of a daily or weekly rule is the calendar date of
\* a cadence position, startDate plus k * interval days (weeks), whatever the
\* UTC offset of the host.
C19_DatesIndependentOfOffset ==
  (Answered /\ rule.frequency \in {"daily", "weekly"})
    => \A i \in 1..Len(EmittedDates) :
         \E k \in PositionsUpTo(rule, EmittedDates[i]) :
           EmittedDates[i] = CadenceDate(rule, k)

\* a rule the generator must reject
InvalidRule(r) == r.frequency \notin Frequencies \/ r.interval < 1

\* C14: generate on a rule whose frequency is not daily, weekly, monthly or
\* yearly, or whose interval is below 1, is not answered with success and
\* emits no occurrences.
C14_InvalidRuleRejected ==
  (resp.op = "generate" /\ rule # NoRule /\ InvalidRule(rule))
    => (resp.status # 200 /\ resp.occurrences = <<>>)

\* C15: generate with from > to is answered with an error, not with a
\* (possibly empty) successful result.
C15_InvalidWindowRejected ==
  (/\ resp.op = "generate" /\ req.from # Null /\ req.to # Null
   /\ Ord(req.from) > Ord(req.to))
    => resp.status # 200

\* C16: for every rule the store can hold and every window the generate loop
\* terminates. For a rule without occurrence limit the only exit of the loop
\* is the cursor passing `end`, so termination is stated through the loop's
\* variant: every iteration that stays in the loop moves the cursor forward.
C16_GenerateTerminates ==
  [][(pc = "loop" /\ pc' = "loop" /\ count' # count /\ rule.occurrences = 0)
       => cursor' > cursor]_vars

\* C20: POST /api/expense with a non-empty amount and date stores one new
\* expense record and answers 201 with the created expense object.
C20_PostExpenseCreates ==
  (expenseResp.status # 0 /\ expenseReq.amount # 0 /\ expenseReq.date # Null)
    => /\ expenseResp.status = 201
       /\ Len(expenses) > 0
       /\ expenseResp.body = expenses[Len(expenses)]

\* ------------------------------------------------------------------------
\* /api/income
\* ------------------------------------------------------------------------
\* the stored incomes of the mode the server runs in
Stored == IF db THEN incomes ELSE incomeFile.data

\* every request received so far has been answered
AllAnswered ==
  \A i \in 1..Len(incomeCalls) : incomeCalls[i].pc = "done"

\* every request received so far is a POST
OnlyPosts == \A i \in 1..Len(incomeCalls) : incomeCalls[i].op = "post"

\* the POSTs answered 201 with the income x
CreatedAs(x) ==
  {i \in 1..Len(incomeCalls) :
     /\ incomeCalls[i].op = "post"
     /\ incomeCalls[i].status = 201
     /\ incomeCalls[i].out = x}

\* how often x occurs in a list
Occurs(store, x) == Cardinality({k \in 1..Len(store) : store[k] = x})

\* C21: in JSON-file mode, when only POST /api/income requests were issued
\* and all of them have completed, in whatever order their reads and writes
\* of the file were interleaved, every income answered with 201 is in the
\* stored list (as often as it was answered).
C21_NoCreatedIncomeLost ==
  (~db /\ OnlyPosts /\ AllAnswered)
    => \A i \in 1..Len(incomeCalls) :
         incomeCalls[i].status = 201
           => Occurs(incomeFile.data, incomeCalls[i].out)
                >= Cardinality(CreatedAs(incomeCalls[i].out))

\* C22: a PUT /api/income/:id answered 200, in SQLite mode and in JSON-file
\* mode, returns the record with the id and the createdAt it had before the
\* update.
C22_PutKeepsIdAndCreatedAt ==
  \A i \in 1..Len(incomeCalls) :
    (incomeCalls[i].op = "put" /\ incomeCalls[i].status = 200)
      => /\ incomeCalls[i].out.id = incomeCalls[i].item.id
         /\ incomeCalls[i].out.createdAt = incomeCalls[i].item.createdAt

\* no two records of the list share an id
UniqueIds(store) ==
  \A j, k \in 1..Len(store) : store[j].id = store[k].id => j = k

\* C23: in JSON-file mode, when only POST requests were issued, no two
\* records of data/income.json share an id and no two records of
\* data/expenses.json share an id.
C23_StoredIdsUnique ==
  (~db /\ OnlyPosts) => UniqueIds(incomeFile.data) /\ UniqueIds(expenses)

\* the step in which the i-th request is answered
Answers(i) ==
  /\ i \in 1..Len(incomeCalls')
  /\ incomeCalls'[i].pc = "done"
  /\ (i > Len(incomeCalls) \/ incomeCalls[i].pc # "done")

\* C24: the step that answers a DELETE /api/income/:id answers 404 and
\* leaves the stored incomes as they are when no stored record has the id;
\* otherwise it removes exactly the stored records with that id.
C24_DeleteByIdOnly ==
  [][\A i \in 1..MaxCalls :
       (Answers(i) /\ incomeCalls'[i].op = "delete")
         => IF \A k \in 1..Len(Stored) : Stored[k].id # incomeCalls'[i].id
            THEN incomeCalls'[i].status = 404 /\ Stored' = Stored
            ELSE Stored' = Filter(Stored, incomeCalls'[i].id)]_vars

====
